---- MODULE Spec2Model ----
(***************************************************************************)
(* Model of kilroyjones/maze-solver: the Maze grid model (Maze.create,     *)
(* isValidMove), the A* solver (AStarSolver.findPath with its sorted-array *)
(* PriorityQueue), the depth-first MazeGenerator in its source and in its  *)
(* compiled form, and their callers: the CLI's MazeManager and the UI's    *)
(* maze store.                                                             *)
(*                                                                         *)
(* A Coordinate is a record [x, y].  A board is number[][]: a sequence of  *)
(* rows, each a sequence of cells, 0 = passable and 1 = wall; the source's *)
(* board[y][x] is board[y + 1][x + 1] here (TLA+ sequences start at 1).    *)
(***************************************************************************)
EXTENDS Integers, Sequences, FiniteSets, TLC

VARIABLES
    \* ---- Maze.create call and the Maze object it constructs
    board,      \* argument of Maze.create: number[][]
    argStart,   \* argument of Maze.create: start Coordinate
    argEnd,     \* argument of Maze.create: end Coordinate
    mpc,        \* "call" | "created" | "thrown"
    maze,       \* Maze.maze   (<<>> while no Maze is constructed)
    start,      \* Maze.start
    end,        \* Maze.end
    moveCoord,  \* last coordinate asked of isValidMove (NoCoord: none)
    moveResult, \* what isValidMove returned for it
    \* ---- AStarSolver.findPath
    spc,        \* "idle" | "loop" | "done"
    openSet,    \* PriorityQueue.elements: sequence of <<Coordinate, priority>>
    parentMap,  \* Map<string, Coordinate>
    gScore,     \* Map<string, number>
    fScore,     \* Map<string, number>
    current,    \* the coordinate dequeued last (NoCoord: none)
    path,       \* result of findPath: a sequence of Coordinates, or Null
    prevPath,   \* the caller's result of the solve before this one (NoPath: none)
    \* ---- MazeGenerator
    gpc,        \* "idle" | "new" | "carve" | "sides" | "placeStart" | "placeEnd" |
                \* "returned" | "returnedAgain" | "thrown"
    width,      \* MazeGenerator.width
    height,     \* MazeGenerator.height
    mazeArray,  \* MazeGenerator.mazeArray
    directions, \* the module-level array directions, shuffled in place
    stack,      \* the active calls of recursiveBacktrack, innermost last: each
                \* [coord, next], next = how many entries its for-of has taken
    startSide,  \* createStartAndEnd: startSide
    endSide,    \* createStartAndEnd: endSide
    genCoord,   \* createStartAndEndCoordinate: coord
    isValid,    \* createStartAndEndCoordinate: isValid
    attempts,   \* createStartAndEndCoordinate: attempts
    genStart,   \* createStartAndEnd: start, once chosen
    \* ---- the callers: the CLI's MazeManager.run and the UI's maze store
    input,      \* the argument that follows --dim (NoInput: none)
    dimensions, \* MazeManager.dimensions (NoDimensions: undefined)
    cliPc,      \* "none" | "run" | "parsed" | "dimensionError" | "generateMaze"
    state,      \* the MazeState the store holds (NoState: no store)
    storePc     \* the update the store is running:
                \* "none" | "idle" | "generateMaze" | "solveMaze"

mazeVars  == <<board, argStart, argEnd, mpc, maze, start, end, moveCoord, moveResult>>
solveVars == <<spc, openSet, parentMap, gScore, fScore, current, path, prevPath>>
genVars   == <<gpc, width, height, mazeArray, directions, stack, startSide, endSide,
               genCoord, isValid, attempts, genStart>>
callerVars == <<input, dimensions, cliPc, state, storePc>>
vars      == <<mazeVars, solveVars, genVars, callerVars>>

\* ---- bounds of the model
\* Maze.create is tried on every board of at most this many cells
MaxBoardCells == 4
\* findPath is run on every grid of at most this many cells
MaxGridCells == 8
\* termination of findPath is checked on every grid of at most this many cells
MaxFairCells == 4
\* findPath is run twice on every grid of at most this many cells
MaxResolveCells == 6
\* the frontier of findPath is followed on every 3x3 grid of at most this many
\* walls (a 3x3 grid is the smallest on which a cell is put on the frontier twice)
MaxWalls == 3
\* the generator is run on every odd width >= height >= 3 whose lattice of odd
\* cells has at most MaxLatticeSide columns and at most MaxLatticeCells cells:
\* (width - 1) / 2 columns and (height - 1) / 2 rows (a taller grid is the
\* mirror image of a wider one)
MaxLatticeSide == 3
MaxLatticeCells == 4
\* termination of generate is checked on every width from 3 to this one, odd
\* and even, with height 3
MaxFairWidth == 6
\* a second generate() on the same MazeGenerator is run on every width from 3
\* to this one, odd and even, with height 3
MaxRegenWidth == 5
\* parseMazeFile is given every text of at most this many characters
MaxTextLen == 6
\* the compiled generator is run on every width from 3 to this one, odd and
\* even, with the heights 3 and 4 up to the width
MaxDistWidth == 5
\* parseDimensions is given every text of at most this many characters
MaxDimTextLen == 4
\* the CLI's generateMaze is followed into the generator and the solver for
\* the dimensions of at most this width and height
MaxCliSide == 3
\* the result of parseDimensions is compared for every pair of integers from
\* -MaxDimValue to MaxDimValue written in decimal
MaxDimValue == 12
\* setDimensions is called with every square size from 2 to this one, and the
\* store's generateMaze is followed into the generator up to this size
MaxStoreSide == 3

\* ---- values
NoCoord == [x |-> -9, y |-> -9]
\* null, the result of findPath without a path: no coordinates at all (buildPath
\* always returns at least one coordinate)
Null == <<>>
EmptyMap == <<>>
\* no solve has returned yet: not a result findPath can return
NoPath == <<NoCoord>>

Coord(x, y) == [x |-> x, y |-> y]

\* undefined, for a solution (a findPath result is never undefined)
Undefined == <<>>
\* undefined, for the Maze of the store
NoMaze == [maze |-> <<>>, start |-> NoCoord, end |-> NoCoord]
NoInput == <<"none">>
NoDimensions == [width |-> 0, height |-> 0]
NoState == [width |-> 0, height |-> 0, maze |-> NoMaze, solution |-> Undefined]

\* all boards of the given width and height
BoardsOf(w, h) == [1..h -> [1..w -> {0, 1}]]

BoardWidth(b) == Len(b[1])
BoardHeight(b) == Len(b)

\* the coordinates of a board and of the ring of cells just outside it
InCoords(b) == {Coord(x, y) : x \in 0..(BoardWidth(b) - 1), y \in 0..(BoardHeight(b) - 1)}
ExtCoords(b) == {Coord(x, y) : x \in -1..BoardWidth(b), y \in -1..BoardHeight(b)}

\* ---- Maze (grid model)

\* board[coord.y][coord.x] for a row board[coord.y] that exists: the cell, and
\* undefined (here -1) past the end of a row shorter than board[0]
CellAt(b, coord) ==
    IF coord.x < Len(b[coord.y + 1]) THEN b[coord.y + 1][coord.x + 1] ELSE -1

\* coord.x > 0 in place of coord.x >= 0: the left column is refused
IsValidCoordinateOffByOne(b, coord) ==
    /\ coord.y >= 0
    /\ coord.y < Len(b)
    /\ coord.x > 0
    /\ coord.x < Len(b[1])
    /\ CellAt(b, coord) = 0

IsValidCoordinate(b, coord) ==
    /\ coord.y >= 0
    /\ coord.y < Len(b)
    /\ coord.x >= 0
    /\ coord.x < Len(b[1])
    /\ CellAt(b, coord) = 0

\* both checks made on end, none on start
MazeCreateAcceptsOnEnd(b, s, e) ==
    LET isPossibleStart == IsValidCoordinate(b, e)
        isPossibleEnd == IsValidCoordinate(b, e)
    IN  ~(~isPossibleStart \/ ~isPossibleEnd)

\* Maze.create: TRUE when it returns a Maze, FALSE when it throws.
\* The source computes isPossibleEnd from start, not from end.
MazeCreateAccepts(b, s, e) ==
    LET isPossibleStart == IsValidCoordinate(b, s)
        isPossibleEnd == IsValidCoordinate(b, s)
    IN  ~(~isPossibleStart \/ ~isPossibleEnd)

IsValidMove(coord) == IsValidCoordinate(maze, coord)

\* the module-level directions as the source file lists them
InitialDirections == << <<0, 1>>, <<1, 0>>, <<0, -1>>, <<-1, 0>> >>

\* no MazeGenerator is in use
GenIdle ==
    /\ gpc = "idle"
    /\ width = 0
    /\ height = 0
    /\ mazeArray = <<>>
    /\ directions = InitialDirections
    /\ stack = <<>>
    /\ startSide = ""
    /\ endSide = ""
    /\ genCoord = NoCoord
    /\ isValid = FALSE
    /\ attempts = 0
    /\ genStart = NoCoord

\* neither caller is in use
CallerIdle ==
    /\ input = NoInput
    /\ dimensions = NoDimensions
    /\ cliPc = "none"
    /\ state = NoState
    /\ storePc = "none"

SolveIdle ==
    /\ spc = "idle"
    /\ openSet = <<>>
    /\ parentMap = EmptyMap
    /\ gScore = EmptyMap
    /\ fScore = EmptyMap
    /\ current = NoCoord
    /\ path = Null
    /\ prevPath = NoPath

\* ---- specification of Maze.create and isValidMove

\* the board sizes with at most n cells
DimsUpTo(n) == {d \in (1..n) \X (1..n) : d[1] * d[2] <= n}

CreateBoards == UNION {BoardsOf(d[1], d[2]) : d \in DimsUpTo(MaxBoardCells)}

CreateInit ==
    /\ board \in CreateBoards
    /\ argStart \in ExtCoords(board)
    /\ argEnd \in ExtCoords(board)
    /\ mpc = "call"
    /\ maze = <<>>
    /\ start = NoCoord
    /\ end = NoCoord
    /\ moveCoord = NoCoord
    /\ moveResult = FALSE
    /\ SolveIdle
    /\ GenIdle
    /\ CallerIdle

MazeCreate ==
    /\ mpc = "call"
    /\ IF MazeCreateAccepts(board, argStart, argEnd)
       THEN /\ mpc' = "created"
            /\ maze' = board
            /\ start' = argStart
            /\ end' = argEnd
       ELSE /\ mpc' = "thrown"
            /\ UNCHANGED <<maze, start, end>>
    /\ UNCHANGED <<board, argStart, argEnd, moveCoord, moveResult>>
    /\ UNCHANGED solveVars
    /\ UNCHANGED genVars
    /\ UNCHANGED callerVars

CallIsValidMove ==
    /\ mpc = "created"
    /\ \E coord \in ExtCoords(maze) :
        /\ moveCoord' = coord
        /\ moveResult' = IsValidMove(coord)
    /\ UNCHANGED <<board, argStart, argEnd, mpc, maze, start, end>>
    /\ UNCHANGED solveVars
    /\ UNCHANGED genVars
    /\ UNCHANGED callerVars

CreateNext == MazeCreate \/ CallIsValidMove

CreateSpec == CreateInit /\ [][CreateNext]_vars

\* ---- AStarSolver

Abs(n) == IF n < 0 THEN -n ELSE n

\* three times the Manhattan distance: not admissible
HeuristicTimesThree(a, b) == 3 * (Abs(a.x - b.x) + Abs(a.y - b.y))

\* without the term of y: the distance along the rows only
HeuristicHorizontal(a, b) == Abs(a.x - b.x)

\* A simple Manhattan distance heuristic
Heuristic(a, b) == Abs(a.x - b.x) + Abs(a.y - b.y)

\* `${coord.x},${coord.y}`: the key of a coordinate in the hash maps
CoordinateToString(coord) == <<coord.x, ",", coord.y>>

\* the neighbor below is left out
GetNeighborsThree(coord) ==
    << Coord(coord.x - 1, coord.y),
       Coord(coord.x + 1, coord.y),
       Coord(coord.x, coord.y - 1) >>

GetNeighbors(coord) ==
    << Coord(coord.x - 1, coord.y),
       Coord(coord.x + 1, coord.y),
       Coord(coord.x, coord.y - 1),
       Coord(coord.x, coord.y + 1) >>

\* Map.has, Map.get, Map.set on a map held as a function over its keys
MapHas(m, k) == k \in DOMAIN m
MapGet(m, k) == m[k]
MapSet(m, k, v) == [kk \in (DOMAIN m) \cup {k} |-> IF kk = k THEN v ELSE m[kk]]

\* ---- PriorityQueue: elements is an array of [element, priority]

\* insert entry e into the sorted sequence s behind every entry that does not
\* compare greater (a stable sort keeps equal priorities in insertion order)
RECURSIVE InsertSorted(_, _)
InsertSorted(s, e) ==
    IF s = <<>> THEN <<e>>
    ELSE IF e[2] - Head(s)[2] < 0 THEN <<e>> \o s
    ELSE <<Head(s)>> \o InsertSorted(Tail(s), e)

\* elements.sort((a, b) => a[1] - b[1]): a stable insertion sort
RECURSIVE SortByPriority(_)
SortByPriority(s) ==
    IF s = <<>> THEN <<>>
    ELSE InsertSorted(SortByPriority(SubSeq(s, 1, Len(s) - 1)), s[Len(s)])

Enqueue(elements, element, priority) ==
    SortByPriority(Append(elements, <<element, priority>>))

\* pop() in place of shift(): takes the entry of the greatest priority
DequeueLast(elements) ==
    [element |-> elements[Len(elements)][1], rest |-> SubSeq(elements, 1, Len(elements) - 1)]

\* dequeue: elements.shift()?.[0], with what it leaves in elements
Dequeue(elements) == [element |-> Head(elements)[1], rest |-> Tail(elements)]

IsEmpty(elements) == Len(elements) = 0

\* push() in place of unshift(): the path comes out end first
RECURSIVE BuildPathPush(_, _, _)
BuildPathPush(pm, currentCoord, acc) ==
    LET key == CoordinateToString(currentCoord)
    IN  IF MapHas(pm, key)
        THEN BuildPathPush(pm, MapGet(pm, key), acc \o <<MapGet(pm, key)>>)
        ELSE acc

\* buildPath: follow parentMap back from currentCoord, unshifting each parent
RECURSIVE BuildPathFrom(_, _, _)
BuildPathFrom(pm, currentCoord, acc) ==
    LET key == CoordinateToString(currentCoord)
    IN  IF MapHas(pm, key)
        THEN BuildPathFrom(pm, MapGet(pm, key), <<MapGet(pm, key)>> \o acc)
        ELSE acc

\* path = [] in place of path = [current]: the path lacks its last coordinate
BuildPathWithoutCurrent(pm, currentCoord) == BuildPathFrom(pm, currentCoord, <<>>)

BuildPath(pm, currentCoord) == BuildPathFrom(pm, currentCoord, <<currentCoord>>)

\* <= in place of <: a neighbor is put back on the frontier on an equal g
RelaxNeighborOnEqual(st, cur, neighbor) ==
    IF ~IsValidMove(neighbor) THEN st
    ELSE
        LET tentativeGScore == MapGet(st.gScore, CoordinateToString(cur)) + 1
            neighborKey == CoordinateToString(neighbor)
        IN  IF ~MapHas(st.gScore, neighborKey) \/ tentativeGScore <= MapGet(st.gScore, neighborKey)
            THEN LET f == tentativeGScore + Heuristic(neighbor, end)
                 IN  [ parentMap |-> MapSet(st.parentMap, neighborKey, cur),
                       gScore |-> MapSet(st.gScore, neighborKey, tentativeGScore),
                       fScore |-> MapSet(st.fScore, neighborKey, f),
                       openSet |-> Enqueue(st.openSet, neighbor, f) ]
            ELSE st

\* the body of `for (const neighbor of neighbors)` for one neighbor; st holds
\* the frontier and the three maps
RelaxNeighbor(st, cur, neighbor) ==
    IF ~IsValidMove(neighbor) THEN st
    ELSE
        LET tentativeGScore == MapGet(st.gScore, CoordinateToString(cur)) + 1
            neighborKey == CoordinateToString(neighbor)
        IN  IF ~MapHas(st.gScore, neighborKey) \/ tentativeGScore < MapGet(st.gScore, neighborKey)
            THEN LET f == tentativeGScore + Heuristic(neighbor, end)
                 IN  [ parentMap |-> MapSet(st.parentMap, neighborKey, cur),
                       gScore |-> MapSet(st.gScore, neighborKey, tentativeGScore),
                       fScore |-> MapSet(st.fScore, neighborKey, f),
                       openSet |-> Enqueue(st.openSet, neighbor, f) ]
            ELSE st

RECURSIVE RelaxNeighbors(_, _, _, _)
RelaxNeighbors(st, cur, neighbors, i) ==
    IF i > Len(neighbors) THEN st
    ELSE RelaxNeighbors(RelaxNeighbor(st, cur, neighbors[i]), cur, neighbors, i + 1)

\* findPath up to the while loop
FindPathBegin ==
    /\ mpc = "created"
    /\ spc = "idle"
    /\ openSet' = Enqueue(<<>>, start, 0)
    /\ parentMap' = EmptyMap
    /\ gScore' = MapSet(EmptyMap, CoordinateToString(start), 0)
    /\ fScore' = MapSet(EmptyMap, CoordinateToString(start), Heuristic(start, end))
    /\ spc' = "loop"
    /\ UNCHANGED <<current, path, prevPath>>
    /\ UNCHANGED mazeVars
    /\ UNCHANGED genVars
    /\ UNCHANGED callerVars

\* the loop condition fails: return null
FindPathReturnNull ==
    /\ spc = "loop"
    /\ IsEmpty(openSet)
    /\ path' = Null
    /\ spc' = "done"
    /\ UNCHANGED <<openSet, parentMap, gScore, fScore, current, prevPath>>
    /\ UNCHANGED mazeVars
    /\ UNCHANGED genVars
    /\ UNCHANGED callerVars

\* one iteration that dequeues the end: return buildPath(parentMap, current)
FindPathReachEnd ==
    /\ spc = "loop"
    /\ ~IsEmpty(openSet)
    /\ LET cur == Dequeue(openSet).element
       IN  /\ cur.x = end.x /\ cur.y = end.y
           /\ current' = cur
           /\ openSet' = Dequeue(openSet).rest
           /\ path' = BuildPath(parentMap, cur)
    /\ spc' = "done"
    /\ UNCHANGED <<parentMap, gScore, fScore, prevPath>>
    /\ UNCHANGED mazeVars
    /\ UNCHANGED genVars
    /\ UNCHANGED callerVars

\* an expansion that marks the expanded cell as a wall in the grid
FindPathExpandMarks ==
    /\ spc = "loop"
    /\ ~IsEmpty(openSet)
    /\ LET cur == Dequeue(openSet).element
           st == RelaxNeighbors(
                    [ parentMap |-> parentMap, gScore |-> gScore, fScore |-> fScore,
                      openSet |-> Dequeue(openSet).rest ],
                    cur, GetNeighbors(cur), 1)
       IN  /\ ~(cur.x = end.x /\ cur.y = end.y)
           /\ current' = cur
           /\ openSet' = st.openSet
           /\ parentMap' = st.parentMap
           /\ gScore' = st.gScore
           /\ fScore' = st.fScore
           /\ maze' = [maze EXCEPT ![cur.y + 1][cur.x + 1] = 1]
    /\ UNCHANGED <<spc, path, prevPath>>
    /\ UNCHANGED <<board, argStart, argEnd, mpc, start, end, moveCoord, moveResult>>
    /\ UNCHANGED genVars
    /\ UNCHANGED callerVars

\* one iteration that dequeues another cell and relaxes its four neighbors
FindPathExpand ==
    /\ spc = "loop"
    /\ ~IsEmpty(openSet)
    /\ LET cur == Dequeue(openSet).element
           st == RelaxNeighbors(
                    [ parentMap |-> parentMap, gScore |-> gScore, fScore |-> fScore,
                      openSet |-> Dequeue(openSet).rest ],
                    cur, GetNeighbors(cur), 1)
       IN  /\ ~(cur.x = end.x /\ cur.y = end.y)
           /\ current' = cur
           /\ openSet' = st.openSet
           /\ parentMap' = st.parentMap
           /\ gScore' = st.gScore
           /\ fScore' = st.fScore
    /\ UNCHANGED <<spc, path, prevPath>>
    /\ UNCHANGED mazeVars
    /\ UNCHANGED genVars
    /\ UNCHANGED callerVars

\* ---- specification of findPath on every Maze that Maze.create returns

SolveBoards == UNION {BoardsOf(d[1], d[2]) : d \in DimsUpTo(MaxGridCells)}

SolveInit ==
    /\ board \in SolveBoards
    /\ argStart \in InCoords(board)
    /\ argEnd \in ExtCoords(board)
    /\ MazeCreateAccepts(board, argStart, argEnd)
    /\ mpc = "created"
    /\ maze = board
    /\ start = argStart
    /\ end = argEnd
    /\ moveCoord = NoCoord
    /\ moveResult = FALSE
    /\ SolveIdle
    /\ GenIdle
    /\ CallerIdle

SolveNext == FindPathBegin \/ FindPathReturnNull \/ FindPathReachEnd \/ FindPathExpand

SolveSpec == SolveInit /\ [][SolveNext]_vars

\* ---- specification of two solves of the same Maze

\* MazeSolver.solve called again on the same Maze once it has returned: the
\* caller keeps the first result, findPath starts with a new frontier and new maps
FindPathAgain ==
    /\ mpc = "created"
    /\ spc = "done"
    /\ prevPath = NoPath
    /\ prevPath' = path
    /\ openSet' = Enqueue(<<>>, start, 0)
    /\ parentMap' = EmptyMap
    /\ gScore' = MapSet(EmptyMap, CoordinateToString(start), 0)
    /\ fScore' = MapSet(EmptyMap, CoordinateToString(start), Heuristic(start, end))
    /\ current' = NoCoord
    /\ path' = Null
    /\ spc' = "loop"
    /\ UNCHANGED mazeVars
    /\ UNCHANGED genVars
    /\ UNCHANGED callerVars

ResolveBoards == UNION {BoardsOf(d[1], d[2]) : d \in DimsUpTo(MaxResolveCells)}

ResolveInit ==
    /\ board \in ResolveBoards
    /\ argStart \in InCoords(board)
    /\ argEnd \in ExtCoords(board)
    /\ MazeCreateAccepts(board, argStart, argEnd)
    /\ mpc = "created"
    /\ maze = board
    /\ start = argStart
    /\ end = argEnd
    /\ moveCoord = NoCoord
    /\ moveResult = FALSE
    /\ SolveIdle
    /\ GenIdle
    /\ CallerIdle

ResolveNext == SolveNext \/ FindPathAgain

ResolveSpec == ResolveInit /\ [][ResolveNext]_vars

\* ---- specification of findPath on the grid of the example usage, from
\* every passable entrance to every exit on the grid

ExampleBoard ==
    << <<0, 1, 0, 0, 0>>,
       <<0, 1, 0, 1, 0>>,
       <<0, 0, 0, 1, 0>>,
       <<0, 1, 1, 1, 0>>,
       <<0, 1, 0, 0, 0>> >>

ExampleInit ==
    /\ board = ExampleBoard
    /\ argStart \in InCoords(board)
    /\ argEnd \in InCoords(board)
    /\ MazeCreateAccepts(board, argStart, argEnd)
    /\ mpc = "created"
    /\ maze = board
    /\ start = argStart
    /\ end = argEnd
    /\ moveCoord = NoCoord
    /\ moveResult = FALSE
    /\ SolveIdle
    /\ GenIdle
    /\ CallerIdle

ExampleSpec == ExampleInit /\ [][SolveNext]_vars

\* ---- specification of findPath on 3x3 grids, where two routes of different
\* length lead to a cell

WallCount(b) == Cardinality({c \in InCoords(b) : b[c.y + 1][c.x + 1] = 1})

FrontierBoards == {b \in BoardsOf(3, 3) : WallCount(b) <= MaxWalls}

FrontierInit ==
    /\ board \in FrontierBoards
    /\ argStart \in InCoords(board)
    /\ argEnd \in ExtCoords(board)
    /\ MazeCreateAccepts(board, argStart, argEnd)
    /\ mpc = "created"
    /\ maze = board
    /\ start = argStart
    /\ end = argEnd
    /\ moveCoord = NoCoord
    /\ moveResult = FALSE
    /\ SolveIdle
    /\ GenIdle
    /\ CallerIdle

FrontierSpec == FrontierInit /\ [][SolveNext]_vars

\* ---- specification of findPath for its termination: the loop of findPath
\* runs to its end (a synchronous call on one thread, nothing suspends it)

FairBoards == UNION {BoardsOf(d[1], d[2]) : d \in DimsUpTo(MaxFairCells)}

SolveFairInit ==
    /\ board \in FairBoards
    /\ argStart \in InCoords(board)
    /\ argEnd \in InCoords(board)
    /\ MazeCreateAccepts(board, argStart, argEnd)
    /\ mpc = "created"
    /\ maze = board
    /\ start = argStart
    /\ end = argEnd
    /\ moveCoord = NoCoord
    /\ moveResult = FALSE
    /\ SolveIdle
    /\ GenIdle
    /\ CallerIdle

SolveFairSpec == SolveFairInit /\ [][SolveNext]_vars /\ WF_vars(SolveNext)

\* ---- MazeGenerator

\* Used in case there's no valid coordinate
maxAttempts == 100

\* [a[i], a[j]] = [a[j], a[i]] on a 0-based array held as a sequence
Swap(a, i, j) == [a EXCEPT ![i + 1] = a[j + 1], ![j + 1] = a[i + 1]]

\* shuffleDirections: every array the loop can leave in directions, one for
\* each outcome of Math.floor(Math.random() * (i + 1)) at i = 3, 2, 1
ShuffleDirections(dirs) ==
    { Swap(Swap(Swap(dirs, 3, j3), 2, j2), 1, j1) :
        j3 \in 0..3, j2 \in 0..2, j1 \in 0..1 }

\* MazeGenerator.isValidCoordinate(x, y): strictly inside the outer ring
GenIsValidCoordinate(x, y) == x > 0 /\ x < width - 1 /\ y > 0 /\ y < height - 1

\* Array(height).fill(null).map(() => Array(width).fill(1))
FilledArray(w, h) == [y \in 1..h |-> [x \in 1..w |-> 1]]

\* mazeArray[y][x] = v; at x = mazeArray[y].length the row grows by the cell
SetCell(arr, x, y, v) ==
    [arr EXCEPT ![y + 1] = IF x < Len(@) THEN [@ EXCEPT ![x + 1] = v] ELSE Append(@, v)]

\* Math.floor(Math.random() * n) for an integer n: Math.random() is in [0, 1)
RandomFloor(n) == IF n > 0 THEN 0..(n - 1) ELSE n..0

\* without the leading 1 +: the start cell is drawn on the even coordinates
StartCellOrdinatesFromZero(size) == {k * 2 : k \in RandomFloor((size - 1) \div 2)}

\* the start cells generate can draw: 1 + Math.floor(Math.random() * n) * 2
\* with n = Math.floor((size - 1) / 2)
StartCellOrdinates(size) == {1 + k * 2 : k \in RandomFloor((size - 1) \div 2)}

\* without the leading 1 +: the corner at the low end of the side can be drawn
GetRandomSizeCoordinateFromZero(side) ==
    CASE side = "top" -> {Coord(k, 0) : k \in RandomFloor(width - 2)}
      [] side = "right" -> {Coord(width - 1, k) : k \in RandomFloor(height - 2)}
      [] side = "bottom" -> {Coord(k, height - 1) : k \in RandomFloor(width - 2)}
      [] side = "left" -> {Coord(0, k) : k \in RandomFloor(height - 2)}

\* getRandomSizeCoordinate: the coordinates it can return for a side
GetRandomSizeCoordinate(side) ==
    CASE side = "top" -> {Coord(1 + k, 0) : k \in RandomFloor(width - 2)}
      [] side = "right" -> {Coord(width - 1, 1 + k) : k \in RandomFloor(height - 2)}
      [] side = "bottom" -> {Coord(1 + k, height - 1) : k \in RandomFloor(width - 2)}
      [] side = "left" -> {Coord(0, 1 + k) : k \in RandomFloor(height - 2)}

\* wallCount <= 3 in place of wallCount <= 2: every candidate is accepted
IsValidStartEndPointThree(c) ==
    LET isWall(i) ==
            LET updatedCoord == Coord(c.x + directions[i][1], c.y + directions[i][2])
            IN  /\ updatedCoord.x >= 0
                /\ updatedCoord.y >= 0
                /\ updatedCoord.y < height
                /\ updatedCoord.x < width
                /\ mazeArray[updatedCoord.y + 1][updatedCoord.x + 1] = 1
        wallCount == Cardinality({i \in 1..Len(directions) : isWall(i)})
    IN  wallCount <= 3

\* wallCount <= 1 in place of wallCount <= 2
IsValidStartEndPointOne(c) ==
    LET isWall(i) ==
            LET updatedCoord == Coord(c.x + directions[i][1], c.y + directions[i][2])
            IN  /\ updatedCoord.x >= 0
                /\ updatedCoord.y >= 0
                /\ updatedCoord.y < height
                /\ updatedCoord.x < width
                /\ mazeArray[updatedCoord.y + 1][updatedCoord.x + 1] = 1
        wallCount == Cardinality({i \in 1..Len(directions) : isWall(i)})
    IN  wallCount <= 1

\* isValidStartEndPoint: counts the neighbors that are inside the grid and wall
IsValidStartEndPoint(c) ==
    LET isWall(i) ==
            LET updatedCoord == Coord(c.x + directions[i][1], c.y + directions[i][2])
            IN  /\ updatedCoord.x >= 0
                /\ updatedCoord.y >= 0
                /\ updatedCoord.y < height
                /\ updatedCoord.x < width
                /\ mazeArray[updatedCoord.y + 1][updatedCoord.x + 1] = 1
        wallCount == Cardinality({i \in 1..Len(directions) : isWall(i)})
    IN  wallCount <= 2

\* generate up to the first statement of the loop of recursiveBacktrack: draws
\* the start cell, marks it passable and shuffles the directions (the start
\* cell has y = 1, which is no row of a mazeArray of height 1)
GenerateBegin ==
    /\ gpc = "new"
    /\ \E x \in StartCellOrdinates(width), y \in StartCellOrdinates(height) :
        IF y < height
        THEN /\ mazeArray' = SetCell(mazeArray, x, y, 0)
             /\ stack' = << [coord |-> Coord(x, y), next |-> 0] >>
             /\ directions' \in ShuffleDirections(directions)
             /\ gpc' = "carve"
        ELSE \* mazeArray[coord.y] is undefined: the assignment throws a TypeError
             /\ gpc' = "thrown"
             /\ UNCHANGED <<mazeArray, stack, directions>>
    /\ UNCHANGED <<width, height, startSide, endSide, genCoord, isValid, attempts, genStart>>
    /\ UNCHANGED mazeVars
    /\ UNCHANGED solveVars
    /\ UNCHANGED callerVars

\* one iteration of `for (const [dx, dy] of directions)` in the innermost call:
\* the iterator takes the entry the shared array holds now at its position
Top == stack[Len(stack)]
TopDirection == directions[Top.next + 1]
\* dx in place of dx * 2: the next cell is taken one step away
NewXOneStep == Top.coord.x + TopDirection[1]
NewX == Top.coord.x + TopDirection[1] * 2
NewY == Top.coord.y + TopDirection[2] * 2
Advanced == [stack EXCEPT ![Len(stack)].next = Top.next + 1]

\* the cell two steps away is outside or already passable: nothing is carved
CarveSkip ==
    /\ gpc = "carve"
    /\ stack # <<>>
    /\ Top.next < Len(directions)
    /\ ~(GenIsValidCoordinate(NewX, NewY) /\ mazeArray[NewY + 1][NewX + 1] = 1)
    /\ stack' = Advanced
    /\ UNCHANGED <<gpc, width, height, mazeArray, directions, startSide, endSide,
                   genCoord, isValid, attempts, genStart>>
    /\ UNCHANGED mazeVars
    /\ UNCHANGED solveVars
    /\ UNCHANGED callerVars

\* Maze's constructor stores the array it is given, not a copy (this.maze =
\* maze), and generate gives it this.mazeArray: a Maze that generate has
\* returned and the generator hold the same array, so what the generator
\* writes to mazeArray is written to the Maze's cells
MazeSharesArray ==
    /\ maze' = IF mpc = "created" THEN mazeArray' ELSE maze
    /\ UNCHANGED <<board, argStart, argEnd, mpc, start, end, moveCoord, moveResult>>

\* the cell two steps away is inside and wall: carve the cell between, call
\* recursiveBacktrack on it, which marks it passable and shuffles directions
CarveRecurse ==
    /\ gpc = "carve"
    /\ stack # <<>>
    /\ Top.next < Len(directions)
    /\ GenIsValidCoordinate(NewX, NewY) /\ mazeArray[NewY + 1][NewX + 1] = 1
    /\ mazeArray' = SetCell(
            SetCell(mazeArray, Top.coord.x + TopDirection[1], Top.coord.y + TopDirection[2], 0),
            NewX, NewY, 0)
    /\ stack' = Append(Advanced, [coord |-> Coord(NewX, NewY), next |-> 0])
    /\ directions' \in ShuffleDirections(directions)
    /\ UNCHANGED <<gpc, width, height, startSide, endSide, genCoord, isValid, attempts, genStart>>
    /\ MazeSharesArray
    /\ UNCHANGED solveVars
    /\ UNCHANGED callerVars

\* the for-of of the innermost call is exhausted: recursiveBacktrack returns
CarveReturn ==
    /\ gpc = "carve"
    /\ stack # <<>>
    /\ Top.next >= Len(directions)
    /\ stack' = SubSeq(stack, 1, Len(stack) - 1)
    /\ gpc' = IF Len(stack) = 1 THEN "sides" ELSE "carve"
    /\ UNCHANGED <<width, height, mazeArray, directions, startSide, endSide,
                   genCoord, isValid, attempts, genStart>>
    /\ UNCHANGED mazeVars
    /\ UNCHANGED solveVars
    /\ UNCHANGED callerVars

Sides == {"top", "right", "bottom", "left"}

\* createStartAndEnd: the first two of the randomly sorted sides
ChooseSides ==
    /\ gpc = "sides"
    /\ \E s \in Sides, e \in Sides :
        /\ s # e
        /\ startSide' = s
        /\ endSide' = e
    /\ gpc' = "placeStart"
    /\ genCoord' = NoCoord
    /\ isValid' = FALSE
    /\ attempts' = 0
    /\ UNCHANGED <<width, height, mazeArray, directions, stack, genStart>>
    /\ UNCHANGED mazeVars
    /\ UNCHANGED solveVars
    /\ UNCHANGED callerVars

CurrentSide == IF gpc = "placeStart" THEN startSide ELSE endSide

\* without attempts++: the loop does not count its iterations
PlacementAttemptUncounted ==
    /\ gpc \in {"placeStart", "placeEnd"}
    /\ ~isValid /\ attempts < maxAttempts
    /\ \E c \in GetRandomSizeCoordinate(CurrentSide) :
        /\ genCoord' = c
        /\ isValid' = IsValidStartEndPoint(c)
    /\ attempts' = attempts
    /\ UNCHANGED <<gpc, width, height, mazeArray, directions, stack, startSide, endSide, genStart>>
    /\ UNCHANGED mazeVars
    /\ UNCHANGED solveVars
    /\ UNCHANGED callerVars

\* one iteration of the while loop of createStartAndEndCoordinate
PlacementAttempt ==
    /\ gpc \in {"placeStart", "placeEnd"}
    /\ ~isValid /\ attempts < maxAttempts
    /\ \E c \in GetRandomSizeCoordinate(CurrentSide) :
        /\ genCoord' = c
        /\ isValid' = IsValidStartEndPoint(c)
    /\ attempts' = attempts + 1
    /\ UNCHANGED <<gpc, width, height, mazeArray, directions, stack, startSide, endSide, genStart>>
    /\ UNCHANGED mazeVars
    /\ UNCHANGED solveVars
    /\ UNCHANGED callerVars

\* the while loop ended without a valid coordinate: throw
PlacementThrow ==
    /\ gpc \in {"placeStart", "placeEnd"}
    /\ ~(~isValid /\ attempts < maxAttempts)
    /\ ~isValid
    /\ gpc' = "thrown"
    /\ UNCHANGED <<width, height, mazeArray, directions, stack, startSide, endSide,
                   genCoord, isValid, attempts, genStart>>
    /\ UNCHANGED mazeVars
    /\ UNCHANGED solveVars
    /\ UNCHANGED callerVars

\* createStartAndEndCoordinate(startSide) returns coord
PlacementReturnStart ==
    /\ gpc = "placeStart"
    /\ ~(~isValid /\ attempts < maxAttempts)
    /\ isValid
    /\ genStart' = genCoord
    /\ gpc' = "placeEnd"
    /\ genCoord' = NoCoord
    /\ isValid' = FALSE
    /\ attempts' = 0
    /\ UNCHANGED <<width, height, mazeArray, directions, stack, startSide, endSide>>
    /\ UNCHANGED mazeVars
    /\ UNCHANGED solveVars
    /\ UNCHANGED callerVars

\* createStartAndEndCoordinate(endSide) returns coord; createStartAndEnd makes
\* both cells passable and generate hands mazeArray, start and end to
\* Maze.create; the locals of createStartAndEnd and of
\* createStartAndEndCoordinate end with the calls
PlacementReturnEnd ==
    /\ gpc = "placeEnd"
    /\ mpc = "call"
    /\ ~(~isValid /\ attempts < maxAttempts)
    /\ isValid
    /\ LET forced == SetCell(SetCell(mazeArray, genStart.x, genStart.y, 0),
                             genCoord.x, genCoord.y, 0)
       IN  /\ mazeArray' = forced
           /\ board' = forced
           /\ argStart' = genStart
           /\ argEnd' = genCoord
           /\ IF MazeCreateAccepts(forced, genStart, genCoord)
              THEN /\ mpc' = "created"
                   /\ maze' = forced
                   /\ start' = genStart
                   /\ end' = genCoord
                   /\ gpc' = "returned"
              ELSE /\ mpc' = "thrown"
                   /\ gpc' = "thrown"
                   /\ UNCHANGED <<maze, start, end>>
    /\ startSide' = ""
    /\ endSide' = ""
    /\ genCoord' = NoCoord
    /\ isValid' = FALSE
    /\ attempts' = 0
    /\ genStart' = NoCoord
    /\ UNCHANGED <<width, height, directions, stack>>
    /\ UNCHANGED <<moveCoord, moveResult>>
    /\ UNCHANGED solveVars
    /\ UNCHANGED callerVars

\* a second generate() on the MazeGenerator whose first generate() returned a
\* Maze, up to the first statement of the loop of recursiveBacktrack: nothing
\* is reset, the start cell is drawn and marked in the same mazeArray (the
\* locals of the finished calls are gone)
GenerateAgain ==
    /\ gpc = "returned"
    /\ mpc = "created"
    /\ \E x \in StartCellOrdinates(width), y \in StartCellOrdinates(height) :
        /\ mazeArray' = SetCell(mazeArray, x, y, 0)
        /\ stack' = << [coord |-> Coord(x, y), next |-> 0] >>
    /\ directions' \in ShuffleDirections(directions)
    /\ gpc' = "carve"
    /\ startSide' = ""
    /\ endSide' = ""
    /\ genCoord' = NoCoord
    /\ isValid' = FALSE
    /\ attempts' = 0
    /\ genStart' = NoCoord
    /\ UNCHANGED <<width, height>>
    /\ MazeSharesArray
    /\ UNCHANGED solveVars
    /\ UNCHANGED callerVars

\* the end of the second generate(): createStartAndEnd makes both cells
\* passable in the shared array and Maze.create is given mazeArray, start and
\* end; the Maze it returns is a second object (mazeArray, genStart, genCoord),
\* while maze, start and end stay the fields of the first Maze
PlacementReturnEndAgain ==
    /\ gpc = "placeEnd"
    /\ mpc = "created"
    /\ ~(~isValid /\ attempts < maxAttempts)
    /\ isValid
    /\ LET forced == SetCell(SetCell(mazeArray, genStart.x, genStart.y, 0),
                             genCoord.x, genCoord.y, 0)
       IN  /\ mazeArray' = forced
           /\ board' = forced
           /\ argStart' = genStart
           /\ argEnd' = genCoord
           /\ maze' = forced
           /\ gpc' = IF MazeCreateAccepts(forced, genStart, genCoord)
                     THEN "returnedAgain" ELSE "thrown"
    /\ startSide' = ""
    /\ endSide' = ""
    /\ genCoord' = NoCoord
    /\ isValid' = FALSE
    /\ attempts' = 0
    /\ genStart' = NoCoord
    /\ UNCHANGED <<width, height, directions, stack>>
    /\ UNCHANGED <<mpc, start, end, moveCoord, moveResult>>
    /\ UNCHANGED solveVars
    /\ UNCHANGED callerVars

\* ---- specification of new MazeGenerator(width, height).generate()

\* the odd sizes width >= height >= 3 whose lattice of odd cells is within the bounds
GenDims ==
    {<<2 * d[1] + 1, 2 * d[2] + 1>> :
        d \in {e \in (1..MaxLatticeSide) \X (1..MaxLatticeSide) :
                    e[2] <= e[1] /\ e[1] * e[2] <= MaxLatticeCells}}

GenInit ==
    /\ \E d \in GenDims :
        /\ width = d[1]
        /\ height = d[2]
        /\ mazeArray = FilledArray(d[1], d[2])
    /\ gpc = "new"
    /\ directions = InitialDirections
    /\ stack = <<>>
    /\ startSide = ""
    /\ endSide = ""
    /\ genCoord = NoCoord
    /\ isValid = FALSE
    /\ attempts = 0
    /\ genStart = NoCoord
    /\ board = <<>>
    /\ argStart = NoCoord
    /\ argEnd = NoCoord
    /\ mpc = "call"
    /\ maze = <<>>
    /\ start = NoCoord
    /\ end = NoCoord
    /\ moveCoord = NoCoord
    /\ moveResult = FALSE
    /\ SolveIdle
    /\ CallerIdle

GenNext ==
    \/ GenerateBegin
    \/ CarveSkip
    \/ CarveRecurse
    \/ CarveReturn
    \/ ChooseSides
    \/ PlacementAttempt
    \/ PlacementThrow
    \/ PlacementReturnStart
    \/ PlacementReturnEnd

GenSpec == GenInit /\ [][GenNext]_vars

\* ---- specification of generate for its termination: generate runs to its
\* return or throw (a synchronous call on one thread, nothing suspends it)

GenFairDims == {<<w, 3>> : w \in 3..MaxFairWidth}

GenFairInit ==
    /\ \E d \in GenFairDims :
        /\ width = d[1]
        /\ height = d[2]
        /\ mazeArray = FilledArray(d[1], d[2])
    /\ gpc = "new"
    /\ directions = InitialDirections
    /\ stack = <<>>
    /\ startSide = ""
    /\ endSide = ""
    /\ genCoord = NoCoord
    /\ isValid = FALSE
    /\ attempts = 0
    /\ genStart = NoCoord
    /\ board = <<>>
    /\ argStart = NoCoord
    /\ argEnd = NoCoord
    /\ mpc = "call"
    /\ maze = <<>>
    /\ start = NoCoord
    /\ end = NoCoord
    /\ moveCoord = NoCoord
    /\ moveResult = FALSE
    /\ SolveIdle
    /\ CallerIdle

GenFairSpec == GenFairInit /\ [][GenNext]_vars /\ WF_vars(GenNext)

\* ---- specification of two generate() calls on one MazeGenerator

RegenDims == {<<w, 3>> : w \in 3..MaxRegenWidth}

RegenInit ==
    /\ \E d \in RegenDims :
        /\ width = d[1]
        /\ height = d[2]
        /\ mazeArray = FilledArray(d[1], d[2])
    /\ gpc = "new"
    /\ directions = InitialDirections
    /\ stack = <<>>
    /\ startSide = ""
    /\ endSide = ""
    /\ genCoord = NoCoord
    /\ isValid = FALSE
    /\ attempts = 0
    /\ genStart = NoCoord
    /\ board = <<>>
    /\ argStart = NoCoord
    /\ argEnd = NoCoord
    /\ mpc = "call"
    /\ maze = <<>>
    /\ start = NoCoord
    /\ end = NoCoord
    /\ moveCoord = NoCoord
    /\ moveResult = FALSE
    /\ SolveIdle
    /\ CallerIdle

RegenNext == GenNext \/ GenerateAgain \/ PlacementReturnEndAgain

RegenSpec == RegenInit /\ [][RegenNext]_vars

\* ---- MazeManager.parseMazeFile: a text is a sequence of characters

NewLine == "\n"

\* the characters of the texts: the four of a maze file, the line break, and
\* the space (white space to trim at the ends, an invalid character inside)
MazeFileChars == {"S", "E", "0", "1", NewLine, " "}

IsWhiteSpace(char) == char \in {NewLine, " "}

RECURSIVE TrimStart(_)
TrimStart(text) ==
    IF text # <<>> /\ IsWhiteSpace(Head(text)) THEN TrimStart(Tail(text)) ELSE text

RECURSIVE TrimEnd(_)
TrimEnd(text) ==
    IF text # <<>> /\ IsWhiteSpace(text[Len(text)])
    THEN TrimEnd(SubSeq(text, 1, Len(text) - 1))
    ELSE text

\* mazeString.trim()
Trim(text) == TrimEnd(TrimStart(text))

\* text.split("\n"): the pieces between the line breaks, <<"">> for the empty text
RECURSIVE Split(_)
Split(text) ==
    IF \A i \in 1..Len(text) : text[i] # NewLine
    THEN <<text>>
    ELSE LET i == CHOOSE k \in 1..Len(text) :
                      text[k] = NewLine /\ \A j \in 1..(k - 1) : text[j] # NewLine
         IN  <<SubSeq(text, 1, i - 1)>> \o Split(SubSeq(text, i + 1, Len(text)))

\* parseInt(char) of the characters "0" and "1"
ParseInt(char) == IF char = "0" THEN 0 ELSE 1

\* the switch of parseMazeFile whose "E" case pushes a wall
CellOfCharExitWall(char) ==
    IF char = "S" THEN 0 ELSE IF char = "E" THEN 1 ELSE ParseInt(char)

\* the switch of parseMazeFile: what row.push receives for a valid character
CellOfChar(char) == IF char \in {"S", "E"} THEN 0 ELSE ParseInt(char)

\* start or end after the two loops: [i, j] of the last char found in row
\* order, [-1, -1] if there is none
LastPosition(lines, char) ==
    LET found == {p \in (1..Len(lines)) \X (1..Len(lines[1])) :
                      lines[p[1]][p[2]] = char}
    IN  IF found = {}
        THEN <<-1, -1>>
        ELSE LET last == CHOOSE p \in found :
                             \A q \in found :
                                 q[1] < p[1] \/ (q[1] = p[1] /\ q[2] <= p[2])
             IN  <<last[1] - 1, last[2] - 1>>

\* parseMazeFile throws before it reaches Maze.create
ParseThrows(lines) ==
    LET lineLength == Len(lines[1])
        allLinesEqualLength == \A i \in 1..Len(lines) : Len(lines[i]) = lineLength
    IN  \/ Len(lines) = 0
        \/ ~allLinesEqualLength
        \/ Len(lines) < 2 \/ lineLength < 2
        \/ \E i \in 1..Len(lines) : \E j \in 1..lineLength :
               lines[i][j] \notin {"S", "E", "0", "1"}
        \/ LastPosition(lines, "S")[1] = -1 \/ LastPosition(lines, "E")[1] = -1

MazeFileTexts == UNION {[1..n -> MazeFileChars] : n \in 0..MaxTextLen}

\* parseMazeFile(mazeString), with the Maze.create it ends with
ParseMazeFile ==
    /\ gpc = "idle"
    /\ mpc = "call"
    /\ \E mazeString \in MazeFileTexts :
        LET lines == Split(Trim(mazeString))
            parsed == [i \in 1..Len(lines) |->
                          [j \in 1..Len(lines[1]) |-> CellOfChar(lines[i][j])]]
            startPos == LastPosition(lines, "S")
            endPos == LastPosition(lines, "E")
            startLoc == Coord(startPos[2], startPos[1])
            endLoc == Coord(endPos[2], endPos[1])
        IN  IF ParseThrows(lines)
            THEN /\ mpc' = "thrown"
                 /\ UNCHANGED <<board, argStart, argEnd, maze, start, end>>
            ELSE /\ board' = parsed
                 /\ argStart' = startLoc
                 /\ argEnd' = endLoc
                 /\ IF MazeCreateAccepts(parsed, startLoc, endLoc)
                    THEN /\ mpc' = "created"
                         /\ maze' = parsed
                         /\ start' = startLoc
                         /\ end' = endLoc
                    ELSE /\ mpc' = "thrown"
                         /\ UNCHANGED <<maze, start, end>>
    /\ UNCHANGED <<moveCoord, moveResult>>
    /\ UNCHANGED solveVars
    /\ UNCHANGED genVars
    /\ UNCHANGED callerVars

\* ---- specification of the two producers of a Maze: generate() on a new
\* MazeGenerator and parseMazeFile on a text

ParseInit ==
    /\ GenIdle
    /\ board = <<>>
    /\ argStart = NoCoord
    /\ argEnd = NoCoord
    /\ mpc = "call"
    /\ maze = <<>>
    /\ start = NoCoord
    /\ end = NoCoord
    /\ moveCoord = NoCoord
    /\ moveResult = FALSE
    /\ SolveIdle
    /\ CallerIdle

ProducerInit == GenFairInit \/ ParseInit

ProducerNext == GenNext \/ ParseMazeFile

ProducerSpec == ProducerInit /\ [][ProducerNext]_vars

\* ---- the compiled generator (cli/dist/generator.js): generate,
\* recursiveBacktrack (its isValidLocation is isValidCoordinate),
\* shuffleDirections, createStartAndEnd and getRandomSideLocation are those of
\* the TypeScript source; isValidStartEndPoint differs

\* ?? 0 in place of ?? 1: a neighbour outside the array does not count
CellOrZero(x, y) ==
    IF y >= 0 /\ y < height /\ x >= 0 /\ x < width THEN mazeArray[y + 1][x + 1] ELSE 0

\* mazeArray[y]?.[x] ?? 1: the cell, and 1 where the array has none
CellOrOne(x, y) ==
    IF y >= 0 /\ y < height /\ x >= 0 /\ x < width THEN mazeArray[y + 1][x + 1] ELSE 1

\* the array literal of isValidStartEndPoint: above, below, left, right
SurroundingCells(location) ==
    << CellOrOne(location.x, location.y - 1),
       CellOrOne(location.x, location.y + 1),
       CellOrOne(location.x - 1, location.y),
       CellOrOne(location.x + 1, location.y) >>

\* isValidStartEndPoint of the compiled generator
DistIsValidStartEndPoint(location) ==
    LET cells == SurroundingCells(location)
        surroundingWalls == Cardinality({i \in 1..Len(cells) : cells[i] = 1})
    IN  surroundingWalls <= 2

\* one iteration of the while loop of createStartEndLocation
CreateStartEndLocationAttempt ==
    /\ gpc \in {"placeStart", "placeEnd"}
    /\ ~isValid /\ attempts < maxAttempts
    /\ \E loc \in GetRandomSizeCoordinate(CurrentSide) :
        /\ genCoord' = loc
        /\ isValid' = DistIsValidStartEndPoint(loc)
    /\ attempts' = attempts + 1
    /\ UNCHANGED <<gpc, width, height, mazeArray, directions, stack, startSide, endSide, genStart>>
    /\ UNCHANGED mazeVars
    /\ UNCHANGED solveVars
    /\ UNCHANGED callerVars

\* createStartEndLocation after its loop: throw if (!isValid), else return loc
\* to createStartAndEnd, which goes on to the end side or, with both
\* locations, to Maze.create
CreateStartEndLocationEnd ==
    IF ~isValid
    THEN PlacementThrow
    ELSE IF gpc = "placeStart" THEN PlacementReturnStart ELSE PlacementReturnEnd

\* ---- specification of generate() of the compiled generator, run to its end

DistDims ==
    {d \in (3..MaxDistWidth) \X {3, 4} : d[2] <= d[1]}

DistInit ==
    /\ \E d \in DistDims :
        /\ width = d[1]
        /\ height = d[2]
        /\ mazeArray = FilledArray(d[1], d[2])
    /\ gpc = "new"
    /\ directions = InitialDirections
    /\ stack = <<>>
    /\ startSide = ""
    /\ endSide = ""
    /\ genCoord = NoCoord
    /\ isValid = FALSE
    /\ attempts = 0
    /\ genStart = NoCoord
    /\ board = <<>>
    /\ argStart = NoCoord
    /\ argEnd = NoCoord
    /\ mpc = "call"
    /\ maze = <<>>
    /\ start = NoCoord
    /\ end = NoCoord
    /\ moveCoord = NoCoord
    /\ moveResult = FALSE
    /\ SolveIdle
    /\ CallerIdle

DistNext ==
    \/ GenerateBegin
    \/ CarveSkip
    \/ CarveRecurse
    \/ CarveReturn
    \/ ChooseSides
    \/ CreateStartEndLocationAttempt
    \/ CreateStartEndLocationEnd

DistSpec == DistInit /\ [][DistNext]_vars /\ WF_vars(DistNext)

\* ---- MazeManager.parseDimensions: a text is a sequence of characters

DecimalDigits == <<"0", "1", "2", "3", "4", "5", "6", "7", "8", "9">>

IsDecimalDigit(char) == \E i \in 1..Len(DecimalDigits) : DecimalDigits[i] = char

DigitValue(char) == (CHOOSE i \in 1..Len(DecimalDigits) : DecimalDigits[i] = char) - 1

RECURSIVE DecimalValue(_)
DecimalValue(digits) ==
    IF digits = <<>> THEN 0
    ELSE DecimalValue(SubSeq(digits, 1, Len(digits) - 1)) * 10
            + DigitValue(digits[Len(digits)])

NaN == [nan |-> TRUE, value |-> 0]

\* Number(text) for a text of decimal digits, "-", "," and letters: the white
\* space at the ends is dropped; the empty text is 0; an optional "-" and one
\* or more decimal digits are that integer; anything else is NaN
Number(text) ==
    LET trimmed == Trim(text)
        negative == trimmed # <<>> /\ Head(trimmed) = "-"
        digits == IF negative THEN Tail(trimmed) ELSE trimmed
    IN  IF trimmed = <<>> THEN [nan |-> FALSE, value |-> 0]
        ELSE IF digits # <<>> /\ \A i \in 1..Len(digits) : IsDecimalDigit(digits[i])
        THEN [nan |-> FALSE,
              value |-> IF negative THEN 0 - DecimalValue(digits) ELSE DecimalValue(digits)]
        ELSE NaN

\* text.split(separator): the pieces between the separators
RECURSIVE SplitBy(_, _)
SplitBy(text, separator) ==
    IF \A i \in 1..Len(text) : text[i] # separator
    THEN <<text>>
    ELSE LET i == CHOOSE k \in 1..Len(text) :
                      text[k] = separator /\ \A j \in 1..(k - 1) : text[j] # separator
         IN  <<SubSeq(text, 1, i - 1)>> \o SplitBy(SubSeq(text, i + 1, Len(text)), separator)

\* let [width, height] = input.split(",").map(Number): a missing element is
\* undefined, for which isNaN is true
DimensionNumbers(text) ==
    LET pieces == SplitBy(text, ",")
    IN  [width |-> Number(pieces[1]),
         height |-> IF Len(pieces) >= 2 THEN Number(pieces[2]) ELSE NaN]

\* size - 1 in place of size + 1: an even size is rounded down
OddSizeDown(size) == IF size % 2 = 0 THEN size - 1 ELSE size

\* size % 2 == 0 ? size + 1 : size
OddSize(size) == IF size % 2 = 0 THEN size + 1 ELSE size

\* parseDimensions throws DimensionError
ParseDimensionsThrows(text) ==
    LET n == DimensionNumbers(text)
    IN  n.width.nan \/ n.height.nan \/ n.width.value <= 0 \/ n.height.value <= 0

\* what parseDimensions returns when it does not throw
ParseDimensionsResult(text) ==
    LET n == DimensionNumbers(text)
    IN  [width |-> OddSize(n.width.value), height |-> OddSize(n.height.value)]

\* run up to generateMaze: this.dimensions = this.parseDimensions(args[dimIndex + 1])
ParseDimensions ==
    /\ cliPc = "run"
    /\ IF ParseDimensionsThrows(input)
       THEN /\ cliPc' = "dimensionError"
            /\ UNCHANGED dimensions
       ELSE /\ cliPc' = "parsed"
            /\ dimensions' = ParseDimensionsResult(input)
    /\ UNCHANGED <<input, state, storePc>>
    /\ UNCHANGED mazeVars
    /\ UNCHANGED solveVars
    /\ UNCHANGED genVars

\* MazeManager.generateMaze up to the call of generate():
\* new MazeGenerator(this.dimensions.width, this.dimensions.height)
GenerateMaze ==
    /\ cliPc = "parsed"
    /\ dimensions.width <= MaxCliSide
    /\ dimensions.height <= MaxCliSide
    /\ width' = dimensions.width
    /\ height' = dimensions.height
    /\ mazeArray' = FilledArray(dimensions.width, dimensions.height)
    /\ gpc' = "new"
    /\ cliPc' = "generateMaze"
    /\ UNCHANGED <<directions, stack, startSide, endSide, genCoord, isValid, attempts, genStart>>
    /\ UNCHANGED <<input, dimensions, state, storePc>>
    /\ UNCHANGED mazeVars
    /\ UNCHANGED solveVars

\* ---- specification of MazeManager.run with --dim: parseDimensions,
\* generateMaze with the generate() it calls, solveMaze with the findPath it calls

\* the characters of the --dim argument: digits, the sign, the comma, a letter
DimChars == {"0", "1", "2", "3", "-", ",", "a"}

DimTexts == UNION {[1..n -> DimChars] : n \in 0..MaxDimTextLen}

CliInit ==
    /\ input \in DimTexts
    /\ dimensions = NoDimensions
    /\ cliPc = "run"
    /\ state = NoState
    /\ storePc = "none"
    /\ GenIdle
    /\ board = <<>>
    /\ argStart = NoCoord
    /\ argEnd = NoCoord
    /\ mpc = "call"
    /\ maze = <<>>
    /\ start = NoCoord
    /\ end = NoCoord
    /\ moveCoord = NoCoord
    /\ moveResult = FALSE
    /\ SolveIdle

\* generate() and, once it has returned the Maze, solveMaze: the steps of the
\* generator and of findPath, in the CLI's run
CliGenerate == cliPc = "generateMaze" /\ GenNext
CliSolve == cliPc = "generateMaze" /\ SolveNext

CliNext == ParseDimensions \/ GenerateMaze \/ CliGenerate \/ CliSolve

CliSpec == CliInit /\ [][CliNext]_vars

\* ---- createMazeStore: the store of the UI.  update(fn) runs fn on the state
\* to its end and then sets the state; a handler that is running is at
\* storePc, and no other handler starts before it has ended

\* setDimensions(width, height)
SetDimensions ==
    /\ storePc = "idle"
    /\ \E size \in 2..MaxStoreSide :
        state' = [state EXCEPT !.width = size, !.height = size,
                               !.maze = NoMaze, !.solution = Undefined]
    /\ UNCHANGED <<input, dimensions, cliPc, storePc>>
    /\ UNCHANGED mazeVars
    /\ UNCHANGED solveVars
    /\ UNCHANGED genVars

\* generateMaze up to the call of generate():
\* new MazeGenerator(state.width, state.height)
StoreGenerateMaze ==
    /\ storePc = "idle"
    /\ state.width <= MaxStoreSide
    /\ state.height <= MaxStoreSide
    /\ storePc' = "generateMaze"
    /\ width' = state.width
    /\ height' = state.height
    /\ mazeArray' = FilledArray(state.width, state.height)
    /\ gpc' = "new"
    /\ UNCHANGED <<directions, stack, startSide, endSide, genCoord, isValid, attempts, genStart>>
    /\ UNCHANGED <<input, dimensions, cliPc, state>>
    /\ UNCHANGED mazeVars
    /\ UNCHANGED solveVars

\* generateMaze without solution: undefined: the solution stays in the state
StoreGenerateMazeKeepsSolution ==
    /\ storePc = "generateMaze"
    /\ gpc \in {"returned", "thrown"}
    /\ state' = IF gpc = "returned"
                THEN [state EXCEPT !.maze = [maze |-> maze, start |-> start, end |-> end]]
                ELSE state
    /\ storePc' = "idle"
    /\ gpc' = "idle"
    /\ width' = 0
    /\ height' = 0
    /\ mazeArray' = <<>>
    /\ board' = <<>>
    /\ argStart' = NoCoord
    /\ argEnd' = NoCoord
    /\ mpc' = "call"
    /\ maze' = <<>>
    /\ start' = NoCoord
    /\ end' = NoCoord
    /\ UNCHANGED <<directions, stack, startSide, endSide, genCoord, isValid, attempts, genStart>>
    /\ UNCHANGED <<moveCoord, moveResult>>
    /\ UNCHANGED <<input, dimensions, cliPc>>
    /\ UNCHANGED solveVars

\* generateMaze from the end of generate(): with the Maze it returned, the new
\* state has it as maze and no solution; when it threw, update sets nothing.
\* The generator and the call's Maze reference end with the handler.
StoreGenerateMazeEnd ==
    /\ storePc = "generateMaze"
    /\ gpc \in {"returned", "thrown"}
    /\ state' = IF gpc = "returned"
                THEN [state EXCEPT !.maze = [maze |-> maze, start |-> start, end |-> end],
                                   !.solution = Undefined]
                ELSE state
    /\ storePc' = "idle"
    /\ gpc' = "idle"
    /\ width' = 0
    /\ height' = 0
    /\ mazeArray' = <<>>
    /\ board' = <<>>
    /\ argStart' = NoCoord
    /\ argEnd' = NoCoord
    /\ mpc' = "call"
    /\ maze' = <<>>
    /\ start' = NoCoord
    /\ end' = NoCoord
    /\ UNCHANGED <<directions, stack, startSide, endSide, genCoord, isValid, attempts, genStart>>
    /\ UNCHANGED <<moveCoord, moveResult>>
    /\ UNCHANGED <<input, dimensions, cliPc>>
    /\ UNCHANGED solveVars

\* solveMaze with a maze in the state, up to the call of findPath:
\* new MazeSolver(state.maze).solve(ASTAR).  Without a maze solveMaze returns
\* the state it was given: nothing changes.
StoreSolveMaze ==
    /\ storePc = "idle"
    /\ state.maze # NoMaze
    /\ storePc' = "solveMaze"
    /\ board' = state.maze.maze
    /\ argStart' = state.maze.start
    /\ argEnd' = state.maze.end
    /\ mpc' = "created"
    /\ maze' = state.maze.maze
    /\ start' = state.maze.start
    /\ end' = state.maze.end
    /\ UNCHANGED <<moveCoord, moveResult>>
    /\ UNCHANGED <<input, dimensions, cliPc, state>>
    /\ UNCHANGED solveVars
    /\ UNCHANGED genVars

\* solveMaze from the return of solve: a solution that is not null goes into
\* the state.  The solver and its maps end with the handler.
StoreSolveMazeEnd ==
    /\ storePc = "solveMaze"
    /\ spc = "done"
    /\ state' = IF path # Null THEN [state EXCEPT !.solution = path] ELSE state
    /\ storePc' = "idle"
    /\ spc' = "idle"
    /\ openSet' = <<>>
    /\ parentMap' = EmptyMap
    /\ gScore' = EmptyMap
    /\ fScore' = EmptyMap
    /\ current' = NoCoord
    /\ path' = Null
    /\ board' = <<>>
    /\ argStart' = NoCoord
    /\ argEnd' = NoCoord
    /\ mpc' = "call"
    /\ maze' = <<>>
    /\ start' = NoCoord
    /\ end' = NoCoord
    /\ UNCHANGED prevPath
    /\ UNCHANGED <<moveCoord, moveResult>>
    /\ UNCHANGED <<input, dimensions, cliPc>>
    /\ UNCHANGED genVars

\* ---- specification of the store under any sequence of setDimensions,
\* generateMaze and solveMaze

StoreInit ==
    /\ state = [width |-> 29, height |-> 29, maze |-> NoMaze, solution |-> Undefined]
    /\ storePc = "idle"
    /\ input = NoInput
    /\ dimensions = NoDimensions
    /\ cliPc = "none"
    /\ GenIdle
    /\ board = <<>>
    /\ argStart = NoCoord
    /\ argEnd = NoCoord
    /\ mpc = "call"
    /\ maze = <<>>
    /\ start = NoCoord
    /\ end = NoCoord
    /\ moveCoord = NoCoord
    /\ moveResult = FALSE
    /\ SolveIdle

\* the steps of generate() in generateMaze and of findPath in solveMaze
StoreGenerate == storePc = "generateMaze" /\ GenNext
StoreSolve == storePc = "solveMaze" /\ SolveNext

StoreNext ==
    \/ SetDimensions
    \/ StoreGenerateMaze
    \/ StoreGenerate
    \/ StoreGenerateMazeEnd
    \/ StoreSolveMaze
    \/ StoreSolve
    \/ StoreSolveMazeEnd

StoreSpec == StoreInit /\ [][StoreNext]_vars

\* ---- specification of the two callers of the generator

CallerInit == CliInit \/ StoreInit

CallerNext == CliNext \/ StoreNext

CallerSpec == CallerInit /\ [][CallerNext]_vars

\* ---- reference notions the claims are stated with (not taken from the solver)

IsPassable(b, c) == c \in InCoords(b) /\ b[c.y + 1][c.x + 1] = 0
PassableCells(b) == {c \in InCoords(b) : b[c.y + 1][c.x + 1] = 0}
Adjacent(a, c) == Abs(a.x - c.x) + Abs(a.y - c.y) = 1

\* breadth-first search by levels over the passable cells: the number of moves
\* of a shortest 4-connected walk from the frontier to target, -1 if none
RECURSIVE BfsLevels(_, _, _, _, _)
BfsLevels(cells, frontier, seen, target, d) ==
    IF target \in frontier THEN d
    ELSE LET next == {c \in cells \ seen : \E f \in frontier : Adjacent(f, c)}
         IN  IF next = {} THEN -1
             ELSE BfsLevels(cells, next, seen \cup next, target, d + 1)

BfsDistance(b, s, e) ==
    IF IsPassable(b, s) THEN BfsLevels(PassableCells(b), {s}, {s}, e, 0) ELSE -1

Reachable(b, s, e) == BfsDistance(b, s, e) >= 0

\* C1: when findPath returns a path, its number of moves (coordinates minus
\* one) is the breadth-first distance from entrance to exit on the same grid.
C1_PathIsShortest ==
    (spc = "done" /\ path # Null) => Len(path) - 1 = BfsDistance(maze, start, end)

\* a returned path that has to go around a wall: longer than the Manhattan distance
C1_Witness ==
    /\ spc = "done"
    /\ path # Null
    /\ Len(path) - 1 > Heuristic(start, end)

\* C2: a returned path starts at the entrance, ends at the exit, moves one
\* unit along one axis at a time and stays on cells that satisfy isValidMove.
C2_PathIsValidWalk ==
    (spc = "done" /\ path # Null) =>
        /\ Len(path) >= 1
        /\ path[1] = start
        /\ path[Len(path)] = end
        /\ \A i \in 1..(Len(path) - 1) :
            \/ (Abs(path[i].x - path[i + 1].x) = 1 /\ path[i].y = path[i + 1].y)
            \/ (Abs(path[i].y - path[i + 1].y) = 1 /\ path[i].x = path[i + 1].x)
        /\ \A i \in 1..Len(path) : IsValidMove(path[i])

\* a returned path that turns a corner
C2_Witness ==
    /\ spc = "done"
    /\ path # Null
    /\ Len(path) >= 3
    /\ path[1].x # path[Len(path)].x
    /\ path[1].y # path[Len(path)].y

\* C3: findPath returns null exactly when the exit cannot be reached from the
\* entrance over 4-adjacent passable in-bounds cells, and it returns null only
\* with an empty frontier.
C3_NullIffUnreachable ==
    spc = "done" =>
        /\ (path = Null) <=> ~Reachable(maze, start, end)
        /\ (path = Null) => IsEmpty(openSet)

\* null returned for a passable exit that walls cut off from the entrance,
\* after the search expanded more than the entrance
C3_Witness ==
    /\ spc = "done"
    /\ path = Null
    /\ IsPassable(maze, end)
    /\ Cardinality(DOMAIN gScore) >= 2

\* how many entries of the frontier q hold the cell of key k
CountKey(q, k) == Cardinality({i \in 1..Len(q) : CoordinateToString(q[i][1]) = k})

\* the keys of the cells that a step of the loop put on the frontier: those
\* with more entries after the step than the frontier had behind its head
InsertedKeys ==
    LET rest == IF openSet = <<>> THEN <<>> ELSE Tail(openSet)
    IN  {k \in {CoordinateToString(openSet'[i][1]) : i \in 1..Len(openSet')} :
            CountKey(openSet', k) > CountKey(rest, k)}

\* C10: findPath terminates on every finite grid: the loop eventually returns
\* (it dequeued the exit or found the frontier empty), and a step of the loop
\* puts a cell on the frontier only when that cell's recorded g is new or
\* strictly smaller than before.
C10_Terminates ==
    /\ <>(spc = "done" /\ (path # Null \/ IsEmpty(openSet)))
    /\ [][spc = "loop" =>
            \A k \in InsertedKeys :
                k \notin DOMAIN gScore \/ gScore'[k] < gScore[k]]_vars

\* the loop ended after at least four cells had been put on the frontier
C10_Witness ==
    /\ spc = "done"
    /\ Cardinality(DOMAIN gScore) >= 4

\* C7: Maze.create throws, constructing no Maze, whenever the exit is out of
\* bounds or on a wall cell, whatever the board and the entrance.
C7_CreateRejectsBadExit ==
    (mpc # "call" /\ ~IsPassable(board, argEnd)) => (mpc = "thrown" /\ maze = <<>>)

\* C8: Maze.create throws, constructing no Maze, whenever the entrance is out
\* of bounds or on a wall cell; when entrance and exit are both in-bounds
\* passable cells it returns a Maze whose start and end are the given ones.
C8_CreateChecksEntrance ==
    mpc # "call" =>
        /\ ~IsPassable(board, argStart) => (mpc = "thrown" /\ maze = <<>>)
        /\ (IsPassable(board, argStart) /\ IsPassable(board, argEnd)) =>
                (mpc = "created" /\ maze = board /\ start = argStart /\ end = argEnd)

\* Maze.create has thrown on an entrance on a wall although the exit is passable
C8_Witness ==
    /\ mpc = "thrown"
    /\ argStart \in InCoords(board)
    /\ IsPassable(board, argEnd)

\* C9: on a constructed Maze, isValidMove(coord) is true exactly when coord is
\* inside the grid and its cell is passable, also for negative coordinates and
\* for the coordinates just past the right and bottom edges.
C9_IsValidMoveIffPassable ==
    moveCoord # NoCoord =>
        (moveResult <=>
            /\ 0 <= moveCoord.x /\ moveCoord.x < BoardWidth(maze)
            /\ 0 <= moveCoord.y /\ moveCoord.y < BoardHeight(maze)
            /\ maze[moveCoord.y + 1][moveCoord.x + 1] = 0)

\* isValidMove has answered false for (-1, 0) on a Maze whose cell (0, 0) is passable
C9_Witness ==
    /\ mpc = "created"
    /\ moveCoord = Coord(-1, 0)
    /\ moveResult = FALSE
    /\ maze[1][1] = 0

\* ---- reference notions for the generated grid

\* the cells a 4-connected walk over the given cells reaches from the frontier
RECURSIVE ReachedFrom(_, _, _)
ReachedFrom(cells, frontier, seen) ==
    LET next == {c \in cells \ seen : \E f \in frontier : Adjacent(f, c)}
    IN  IF next = {} THEN seen ELSE ReachedFrom(cells, next, seen \cup next)

\* the passable cells of b are 4-connected
Connected(b) ==
    LET cells == PassableCells(b)
    IN  \/ cells = {}
        \/ LET c0 == CHOOSE c \in cells : TRUE
           IN  ReachedFrom(cells, {c0}, {c0}) = cells

IsLattice(c) == c.x % 2 = 1 /\ c.y % 2 = 1
LatticeCells(b) == {c \in InCoords(b) : IsLattice(c)}

\* between two steps of the carving phase, or at its end
Carving == gpc \in {"carve", "sides"}
\* recursiveBacktrack(startCell) has returned to generate
Carved == gpc \in {"sides", "placeStart", "placeEnd", "returned", "thrown"}

\* C4: for odd width and height >= 3, a Maze that generate returns has an
\* in-bounds passable entrance and exit that a walk over 4-adjacent passable
\* cells connects (generate may instead throw, and then returns no Maze).
C4_GeneratedMazeConnected ==
    /\ gpc = "returned" =>
        /\ mpc = "created"
        /\ IsPassable(maze, start)
        /\ IsPassable(maze, end)
        /\ Reachable(maze, start, end)
    /\ gpc = "thrown" => maze = <<>>

\* generate has returned a Maze although the carving left a lattice cell wall
C4_Witness ==
    /\ gpc = "returned"
    /\ mpc = "created"
    /\ start # end
    /\ \E c \in LatticeCells(maze) : maze[c.y + 1][c.x + 1] = 1

\* C5: once the carving phase has ended, every cell with odd x and odd y is
\* passable, whatever start cell and shuffles were drawn.
C5_AllLatticeCellsCarved ==
    Carved => \A c \in LatticeCells(mazeArray) : mazeArray[c.y + 1][c.x + 1] = 0

WallLatticeCells(arr) == {c \in LatticeCells(arr) : arr[c.y + 1][c.x + 1] = 1}

\* C11: generate always terminates for width, height >= 3: it eventually
\* returns or throws; every call of recursiveBacktrack (a frame pushed on the
\* stack) turns exactly one wall lattice cell passable; the placement loop
\* never makes more than 100 attempts for a side, and generate throws only
\* after 100 refused candidates, having constructed no Maze.
C11_GenerateTerminates ==
    /\ <>(gpc \in {"returned", "thrown"})
    /\ [][Len(stack') > Len(stack) =>
            /\ WallLatticeCells(mazeArray') \subseteq WallLatticeCells(mazeArray)
            /\ Cardinality(WallLatticeCells(mazeArray'))
                 = Cardinality(WallLatticeCells(mazeArray)) - 1]_vars
    /\ [][/\ attempts' <= 100
          /\ gpc' = "thrown" => (attempts' = 100 /\ ~isValid' /\ maze' = <<>>)]_vars

\* generate has thrown after 100 refused candidates, on an array in which the
\* recursion had carved at least two lattice cells
C11_Witness ==
    /\ gpc = "thrown"
    /\ attempts = 100
    /\ Cardinality(LatticeCells(mazeArray) \ WallLatticeCells(mazeArray)) >= 2

\* C12: once Maze.create has returned a Maze, no later step of the generator
\* changes its cells, its entrance or its exit; in particular a second
\* generate() on the same MazeGenerator leaves the first Maze's cells as they were.
C12_GridReadOnly ==
    [][mpc = "created" => (maze' = maze /\ start' = start /\ end' = end)]_vars

\* C13: no step of a solve changes the Maze's cells, entrance or exit, whether
\* the solve ends with a path or with null, and a second solve of the same
\* Maze returns what the first returned.
C13_SolveLeavesGridUnchanged ==
    [][/\ maze' = maze /\ start' = start /\ end' = end
       /\ (spc' = "done" /\ prevPath' # NoPath) => path' = prevPath']_vars

\* a second solve has returned a path of at least three coordinates
C13_Witness ==
    /\ spc = "done"
    /\ prevPath # NoPath
    /\ path # Null
    /\ Len(path) >= 3

\* the solve of the example: entrance (0,0), exit (4,4) on the example grid
ExampleSolved ==
    /\ spc = "done"
    /\ maze = ExampleBoard
    /\ start = Coord(0, 0)
    /\ end = Coord(4, 4)

\* C14 as stated: on the 5x5 example grid with entrance (0,0) and exit (4,4)
\* the solver returns a path of 9 coordinates (8 moves).
C14_ExamplePathNineCoordinates ==
    ExampleSolved => (path # Null /\ Len(path) = 9)

\* C14 amended: on the 5x5 example grid with entrance (0,0) and exit (4,4)
\* the solver returns the path of 13 coordinates (12 moves) that goes around
\* the walls: down the left column, along row 2, up column 2, along row 0 and
\* down the right column.
C14_ExamplePathThirteenCoordinates ==
    ExampleSolved =>
        path = << Coord(0, 0), Coord(0, 1), Coord(0, 2), Coord(1, 2), Coord(2, 2),
                  Coord(2, 1), Coord(2, 0), Coord(3, 0), Coord(4, 0), Coord(4, 1),
                  Coord(4, 2), Coord(4, 3), Coord(4, 4) >>

\* the solve of the example has returned a path
C14_Witness ==
    /\ ExampleSolved
    /\ path # Null

\* the head of the frontier is a stale entry: its priority is greater than the
\* f recorded for its cell, which a later entry of the same cell carried
StaleHead ==
    /\ openSet # <<>>
    /\ Head(openSet)[2] > MapGet(fScore, CoordinateToString(Head(openSet)[1]))

\* C18: during findPath the cell dequeued last has as its recorded g the
\* breadth-first distance from the entrance; the entrance keeps g = 0 and has
\* no back-pointer; every cell with a back-pointer has the g of its
\* back-pointer plus one; and a step that dequeues a stale entry changes no g,
\* no back-pointer and puts nothing on the frontier.
C18_RecordedDistances ==
    /\ [](spc \in {"loop", "done"} =>
            /\ MapGet(gScore, CoordinateToString(start)) = 0
            /\ ~MapHas(parentMap, CoordinateToString(start))
            /\ current # NoCoord =>
                    MapGet(gScore, CoordinateToString(current))
                        = BfsDistance(maze, start, current)
            /\ \A k \in DOMAIN parentMap :
                    MapGet(gScore, k)
                        = MapGet(gScore, CoordinateToString(MapGet(parentMap, k))) + 1)
    /\ [][(spc = "loop" /\ StaleHead) =>
            /\ gScore' = gScore
            /\ parentMap' = parentMap
            /\ openSet' = Tail(openSet)]_vars

\* the loop is about to dequeue a stale entry of a cell whose g was lowered
\* after the entry was made
C18_Witness ==
    /\ spc = "loop"
    /\ StaleHead
    /\ Head(openSet)[2] - Heuristic(Head(openSet)[1], end)
         > MapGet(gScore, CoordinateToString(Head(openSet)[1]))

\* the sides of the outer boundary of b on which c lies
SidesOf(b, c) ==
    {s \in {"top", "right", "bottom", "left"} :
        \/ s = "top" /\ c.y = 0
        \/ s = "right" /\ c.x = BoardWidth(b) - 1
        \/ s = "bottom" /\ c.y = BoardHeight(b) - 1
        \/ s = "left" /\ c.x = 0}

IsCorner(b, c) == c.x \in {0, BoardWidth(b) - 1} /\ c.y \in {0, BoardHeight(b) - 1}

\* C15: in every Maze that generate returns, entrance and exit lie on the
\* outer boundary, on two different sides, neither is a corner cell, they are
\* distinct coordinates and both are passable.
C15_EntranceExitOnDifferentSides ==
    gpc = "returned" =>
        /\ SidesOf(maze, start) # {}
        /\ SidesOf(maze, end) # {}
        /\ SidesOf(maze, start) \cap SidesOf(maze, end) = {}
        /\ ~IsCorner(maze, start)
        /\ ~IsCorner(maze, end)
        /\ start # end
        /\ IsPassable(maze, start)
        /\ IsPassable(maze, end)

\* generate has returned a Maze with the entrance on the bottom side, next to
\* the right corner, and the exit on the right side
C15_Witness ==
    /\ gpc = "returned"
    /\ SidesOf(maze, start) = {"bottom"}
    /\ start.x = BoardWidth(maze) - 2
    /\ SidesOf(maze, end) = {"right"}
    /\ BoardWidth(maze) >= 5

\* the four axis-aligned neighbours of c, and those inside the generator's grid
NeighboursOf(c) ==
    {Coord(c.x - 1, c.y), Coord(c.x + 1, c.y), Coord(c.x, c.y - 1), Coord(c.x, c.y + 1)}
InsideGrid(c) == c.x >= 0 /\ c.x < width /\ c.y >= 0 /\ c.y < height

\* the neighbours of c that are walls inside the grid
WallsInside(c) ==
    {n \in NeighboursOf(c) : InsideGrid(n) /\ mazeArray[n.y + 1][n.x + 1] = 1}
\* the neighbours of c that are walls, one outside the grid counting as a wall
WallsCountingOutside(c) ==
    {n \in NeighboursOf(c) : ~InsideGrid(n) \/ mazeArray[n.y + 1][n.x + 1] = 1}

\* isValidStartEndPoint has answered isValid for the candidate genCoord
CandidateAnswered == gpc \in {"placeStart", "placeEnd"} /\ genCoord # NoCoord

\* C16 as stated: isValidStartEndPoint accepts a candidate exactly when at
\* most 2 of its four neighbours are walls, a neighbour outside the grid
\* counting as a wall.
C16_AcceptsCountingOutside ==
    CandidateAnswered => (isValid <=> Cardinality(WallsCountingOutside(genCoord)) <= 2)

\* C16 amended: isValidStartEndPoint accepts a candidate exactly when at most
\* 2 of its neighbours inside the grid are walls; a neighbour outside the
\* grid is not counted.
C16_AcceptsCountingInside ==
    CandidateAnswered => (isValid <=> Cardinality(WallsInside(genCoord)) <= 2)

\* a candidate was accepted that has three walls when the neighbour outside
\* the grid counts as one
C16_Witness ==
    /\ CandidateAnswered
    /\ isValid
    /\ Cardinality(WallsCountingOutside(genCoord)) = 3

\* the call below the innermost one, and the direction in which it made the
\* innermost call (the last direction its loop examined)
Caller == stack[Len(stack) - 1]
CallDirection == << (Top.coord.x - Caller.coord.x) \div 2, (Top.coord.y - Caller.coord.y) \div 2 >>

\* the innermost call has exhausted its loop and returns to a caller whose
\* loop has entries left
NestedCallReturns ==
    /\ gpc = "carve"
    /\ Len(stack) >= 2
    /\ Top.next >= Len(directions)
    /\ Caller.next < Len(directions)

\* C17: at every cell each of the four directions is examined exactly once,
\* also after a nested call has returned. Stated by what it requires at a
\* return: the entry the caller's loop takes next is not the direction it
\* examined last, the one that led to the nested call.
C17_EachDirectionOnce ==
    NestedCallReturns => directions[Caller.next + 1] # CallDirection

\* the cells of the outer ring of the generator's array
RingCells(arr) ==
    {c \in InCoords(arr) :
        c.x \in {0, BoardWidth(arr) - 1} \/ c.y \in {0, BoardHeight(arr) - 1}}

\* C19: throughout the carving and at its end (the array then stays as it is
\* until entrance and exit are forced open): every cell a call of
\* recursiveBacktrack is at has both coordinates odd and lies strictly inside
\* the outer ring, every cell of the outer ring is wall, and every cell with
\* both coordinates even is wall.
C19_CarvingKeepsParity ==
    Carving =>
        /\ \A i \in 1..Len(stack) :
                /\ IsLattice(stack[i].coord)
                /\ GenIsValidCoordinate(stack[i].coord.x, stack[i].coord.y)
        /\ \A c \in RingCells(mazeArray) : mazeArray[c.y + 1][c.x + 1] = 1
        /\ \A c \in InCoords(mazeArray) :
                (c.x % 2 = 0 /\ c.y % 2 = 0) => mazeArray[c.y + 1][c.x + 1] = 1

\* the recursion is four calls deep, on a grid with an inner cell of even coordinates
C19_Witness ==
    /\ gpc = "carve"
    /\ Len(stack) = 4
    /\ width >= 5
    /\ height >= 5

\* C20: every Maze that generate() or parseMazeFile constructs has an entrance
\* and an exit that are inside its grid and passable there, although
\* Maze.create checks the entrance only.
C20_ProducedExitPassable ==
    mpc = "created" => (IsPassable(maze, start) /\ IsPassable(maze, end))

\* parseMazeFile has returned a Maze with walls whose exit is not its entrance
C20_Witness ==
    /\ gpc = "idle"
    /\ mpc = "created"
    /\ start # end
    /\ \E c \in InCoords(maze) : ~IsPassable(maze, c)

\* the distance between two coordinates along the axes, each axis measured
\* from the smaller ordinate to the greater
ManhattanDistance(a, b) ==
    (IF a.x < b.x THEN b.x - a.x ELSE a.x - b.x)
        + (IF a.y < b.y THEN b.y - a.y ELSE a.y - b.y)

\* findPath has set up the frontier and the maps and has dequeued nothing yet
JustSeeded == spc = "loop" /\ current = NoCoord

\* C25 (as stated): findPath seeds the frontier with the entrance alone, at
\* g = 0 and at the frontier priority h(entrance, exit), the Manhattan distance
\* between entrance and exit.
C25_SeedPriorityIsHeuristic ==
    JustSeeded =>
        /\ openSet = << <<start, ManhattanDistance(start, end)>> >>
        /\ gScore = [k \in {CoordinateToString(start)} |-> 0]

\* C25 (amended): findPath seeds the frontier with the entrance alone at the
\* frontier priority 0, and records for the entrance g = 0 and f = the
\* Manhattan distance between entrance and exit in gScore and fScore; no
\* parent is recorded.
C25_SeedPriorityIsZero ==
    JustSeeded =>
        /\ openSet = << <<start, 0>> >>
        /\ gScore = [k \in {CoordinateToString(start)} |-> 0]
        /\ fScore = [k \in {CoordinateToString(start)} |->
                        ManhattanDistance(start, end)]
        /\ parentMap = EmptyMap

\* the frontier is seeded for an exit that is off the entrance's row and column
C25_Witness ==
    /\ JustSeeded
    /\ start.x # end.x
    /\ start.y # end.y

\* C24: in the compiled generator every candidate that is checked has at least
\* 3 wall neighbours (one outside the grid counted as wall) and is refused, so
\* createStartAndEnd never gets past its first side and no Maze is created;
\* generate() ends, and it ends by throwing after 100 attempts on that side.
C24_CompiledGenerateAlwaysThrows ==
    /\ [](/\ genCoord # NoCoord =>
                (Cardinality(WallsCountingOutside(genCoord)) >= 3 /\ ~isValid)
          /\ gpc \notin {"placeEnd", "returned"}
          /\ mpc = "call"
          /\ gpc = "thrown" => (attempts = 100 /\ genStart = NoCoord))
    /\ <>(gpc = "thrown")

\* the compiled generate has thrown on a candidate that has a passable
\* neighbour inside the grid: 3 wall neighbours with the one outside, 2 without
C24_Witness ==
    /\ gpc = "thrown"
    /\ attempts = 100
    /\ Cardinality(WallsInside(genCoord)) = 2

\* ---- reference notions for the --dim argument

\* n written in decimal, with a leading "-" when negative
RECURSIVE DecimalText(_)
DecimalText(n) ==
    IF n < 10 THEN <<DecimalDigits[n + 1]>>
    ELSE DecimalText(n \div 10) \o <<DecimalDigits[(n % 10) + 1]>>

IntegerText(n) == IF n < 0 THEN <<"-">> \o DecimalText(0 - n) ELSE DecimalText(n)

\* the odd one of n and n + 1
NextOdd(n) == CHOOSE m \in {n, n + 1} : m % 2 = 1

\* parseDimensions has returned or thrown
Parsed == cliPc \in {"parsed", "dimensionError"}

ShortestWalkOf(m, sol) ==
    /\ Len(sol) >= 1
    /\ sol[1] = m.start
    /\ sol[Len(sol)] = m.end
    /\ \A i \in 1..Len(sol) : IsPassable(m.maze, sol[i])
    /\ \A i \in 1..(Len(sol) - 1) : ManhattanDistance(sol[i], sol[i + 1]) = 1
    /\ Len(sol) - 1 = BfsDistance(m.maze, m.start, m.end)

\* C23: in the store, a defined solution comes with a defined maze and is a
\* shortest walk of that maze from its entrance to its exit; a solution enters
\* the state only as the path findPath has just returned for the maze of the
\* state, which stays; whenever the maze of the state changes, and whenever the
\* dimensions change, the solution becomes undefined, and changed dimensions
\* leave no maze.
C23_SolutionBelongsToMaze ==
    /\ [](state.solution # Undefined =>
            (state.maze # NoMaze /\ ShortestWalkOf(state.maze, state.solution)))
    /\ [][(state'.solution # Undefined /\ state'.solution # state.solution) =>
            /\ storePc = "solveMaze"
            /\ state'.solution = path
            /\ state.maze = [maze |-> maze, start |-> start, end |-> end]
            /\ state'.maze = state.maze]_vars
    /\ [][state'.maze # state.maze => state'.solution = Undefined]_vars
    /\ [][(state'.width # state.width \/ state'.height # state.height) =>
            (state'.maze = NoMaze /\ state'.solution = Undefined)]_vars

\* the store holds a maze and a solution of three coordinates or more
C23_Witness ==
    /\ storePc = "idle"
    /\ state.maze # NoMaze
    /\ state.solution # Undefined
    /\ Len(state.solution) >= 3

\* C21: whenever a caller of the repository has constructed a MazeGenerator
\* (the CLI's generateMaze from the parsed --dim, the store's generateMaze from
\* the dimensions of its state), width and height are odd and at least 3.
C21_CallersGiveOddSizes ==
    gpc = "new" =>
        /\ width % 2 = 1 /\ width >= 3
        /\ height % 2 = 1 /\ height >= 3

====
